---- MODULE Spec2Model ----
(***************************************************************************)
(* Model of kbo.py: the enterprise-number normalizer, the contact-field    *)
(* extractor, the form driver (scrape_one) and the batch loop (main).      *)
(*                                                                         *)
(* A Python str is a sequence of characters; a character is a one-element  *)
(* TLA+ string.  Page text is a sequence of text chunks (see Tokens).      *)
(* The empty str "" is the empty sequence.                                 *)
(***************************************************************************)
EXTENDS Naturals, Sequences, FiniteSets

VARIABLES
    nIn,        \* normalizer: the argument n of normalize_kbo
    nOut,       \* normalizer: outcome of normalize_kbo(n)
    nOut2,      \* normalizer: outcome of normalize_kbo applied to the value returned
    page,       \* extractor: the rendered page (body text, heading lookups, url)
    extracted,  \* extractor: outcome of extract_from_detail_page(page)
    env,        \* driver: how the browser answers each call of one scrape_one run
    scraped,    \* driver: outcome of scrape_one (calls made on the page, result)
    inputFile,  \* main: the identifiers read from the input file, lines 153-162
    pc,         \* main: position in main()
    nums,       \* main: the list nums (as read before line 164, normalized after)
    idx,        \* main: loop index i (1-based) of the for loop at line 172
    pending,    \* main: outcome of the scrape_one call whose row is not appended yet
    rows,       \* main: the list rows
    browser,    \* main: the browser session ("none", "open", "closed")
    driverLog,  \* main: the calls of scrape_one made so far, in order
    output,     \* main: the tables written by to_csv, in order
    crash       \* main: the exception that ended main, if any

vars == <<nIn, nOut, nOut2, page, extracted, env, scraped, inputFile,
          pc, nums, idx, pending, rows, browser, driverLog, output, crash>>

normVars == <<nIn, nOut, nOut2>>
extractVars == <<page, extracted>>
scrapeVars == <<env, scraped>>
mainVars == <<inputFile, pc, nums, idx, pending, rows, browser, driverLog, output, crash>>

EmptyStr == <<>>

(***************************************************************************)
(* Characters.  ArabicThree is U+0663 ARABIC-INDIC DIGIT THREE: a decimal  *)
(* digit for the str pattern \d, and not one of '0'..'9'.                  *)
(***************************************************************************)
AsciiDigits == {"0", "1", "2", "3", "4", "5", "6", "7", "8", "9"}
ArabicThree == "U+0663"

\* The complement of \D in a str pattern: any Unicode decimal digit.
IsDigitChar(c) == c \in AsciiDigits \cup {ArabicThree}

NoError == [type |-> "", arg |-> EmptyStr]

\* A mutation of normalize_kbo: the "0" is prepended to 9 and to 10 digits.
normalize_kbo_always_pad(n) ==
    LET digits == SelectSeq(n, IsDigitChar)
    IN  IF Len(digits) \notin {9, 10}
        THEN [raised |-> TRUE, value |-> EmptyStr,
              error |-> [type |-> "ValueError", arg |-> n]]
        ELSE [raised |-> FALSE, value |-> <<"0">> \o digits, error |-> NoError]

\* A mutation of normalize_kbo: the zero-pad is applied to 8 digits, not 9.
normalize_kbo_pad8(n) ==
    LET digits == SelectSeq(n, IsDigitChar)
        padded == IF Len(digits) = 8 THEN <<"0">> \o digits ELSE digits
    IN  IF Len(padded) # 10
        THEN [raised |-> TRUE, value |-> EmptyStr,
              error |-> [type |-> "ValueError", arg |-> n]]
        ELSE [raised |-> FALSE, value |-> padded, error |-> NoError]

\* normalize_kbo(n), lines 8-14.  The ValueError's message is the fixed
\* prefix "Invalid Belgian enterprise number: " followed by n itself (arg).
normalize_kbo(n) ==
    LET digits == SelectSeq(n, IsDigitChar)
        padded == IF Len(digits) = 9 THEN <<"0">> \o digits ELSE digits
    IN  IF Len(padded) # 10
        THEN [raised |-> TRUE, value |-> EmptyStr,
              error |-> [type |-> "ValueError", arg |-> n]]
        ELSE [raised |-> FALSE, value |-> padded, error |-> NoError]

(***************************************************************************)
(* Page text.  The body text is a sequence of chunks; each chunk stands    *)
(* for the characters it spells.  The chunks are chosen so that a label    *)
(* of a pattern can only match a whole chunk: no label is spelled across   *)
(* two chunks or inside another one followed by a separator ("Telefoon"    *)
(* starts with "Tel", and "Tel" there is followed by "e", not by a         *)
(* separator).  Labels are matched with re.IGNORECASE: a label chunk       *)
(* stands for the label in any letter case.                                *)
(***************************************************************************)
NL == "\n"
Tokens == {"Tel", "Telefoon", "E-mail", "Website", ":", ".", " ", NL, "1", "x", "a@b",
           "www.x"}
FieldTokens == {"Tel", "Telefoon", ":", "1", NL, "E-mail", "a@b"}

IsSpace(t) == t \in {" ", NL, "\r", "\t"}       \* \s
IsLineBreak(t) == t \in {NL, "\r"}              \* [\n\r]
IsSep(t) == t \in {":", "-"}                    \* [:\-]
\* Chunks whose first character is in [+()\d].
PhoneStart == {"+", "(", ")", "1", ArabicThree}
\* Chunks spelling https?://[^\s]+ or www\.[^\s]+ from their first character.
UrlStart == {"www.x", "http://x", "https://x"}

\* The patterns of lines 33, 34, 37 and 40.  dotted: the labels followed by \.?
\* A chunk is whitespace or free of whitespace, so the label "Site web" of
\* line 40, which holds a space, is spelled by no chunk and is not listed.
PhonePattern1 == [labels |-> {"Tel", "Telephone(fr)"}, dotted |-> {"Tel"}, value |-> "phone"]
PhonePattern2 == [labels |-> {"Telefoon"}, dotted |-> {}, value |-> "phone"]
EmailPattern == [labels |-> {"E-mail", "Email"}, dotted |-> {}, value |-> "email"]
WebsitePattern == [labels |-> {"Website"}, dotted |-> {}, value |-> "website"]

PhonePatterns == <<PhonePattern1, PhonePattern2>>
EmailPatterns == <<EmailPattern>>
WebsitePatterns == <<WebsitePattern>>

NoMatch == [matched |-> FALSE, start |-> 0, group1 |-> EmptyStr]

RECURSIVE SkipSpaces(_, _)
\* \s*, greedy, from position i: the first position that is not whitespace.
SkipSpaces(text, i) ==
    IF i <= Len(text) /\ IsSpace(text[i]) THEN SkipSpaces(text, i + 1) ELSE i

RECURSIVE RestOfLine(_, _)
\* [^\n\r]*, greedy, from position i: the position after the last chunk taken.
RestOfLine(text, i) ==
    IF i <= Len(text) /\ ~IsLineBreak(text[i]) THEN RestOfLine(text, i + 1) ELSE i

RECURSIVE RestOfRun(_, _)
\* [^\s\n\r]*, greedy, from position i: the position after the last chunk taken.
RestOfRun(text, i) ==
    IF i <= Len(text) /\ ~IsSpace(text[i]) THEN RestOfRun(text, i + 1) ELSE i

\* The label alternative at position i: the position after it, 0 if none.
\* After "Tel" the optional "." is taken when present: without it the next
\* character would be the ".", which is neither \s nor a separator.
LabelEnd(pat, text, i) ==
    IF text[i] \notin pat.labels THEN 0
    ELSE IF text[i] \in pat.dotted /\ i + 1 <= Len(text) /\ text[i + 1] = "."
         THEN i + 2
         ELSE i + 1

\* The capture group at position m: the position after it, 0 if it does not
\* match there.  phone: [+()\d][^\n\r]*; email: [^\s]+@[^\s]+, which takes
\* the whole whitespace-free run when the run has an "@" with a character on
\* each side; website: https?://[^\s]+ or www\.[^\s]+, to the end of the run.
ValueEnd(pat, text, m) ==
    IF m > Len(text) THEN 0
    ELSE IF pat.value = "phone"
         THEN IF text[m] \in PhoneStart THEN RestOfLine(text, m + 1) ELSE 0
    ELSE IF pat.value = "email"
         THEN LET e == RestOfRun(text, m)
              IN  IF \E p \in m..(e - 1) :
                         \/ text[p] = "a@b"
                         \/ text[p] = "@" /\ m < p /\ p < e - 1
                  THEN e ELSE 0
    ELSE IF text[m] \in UrlStart THEN RestOfRun(text, m + 1) ELSE 0

\* The whole pattern anchored at position i: label \s* [:\-] \s* (group 1).
MatchAt(pat, text, i) ==
    LET j == LabelEnd(pat, text, i)
        k == SkipSpaces(text, j)
        m == SkipSpaces(text, k + 1)
        e == ValueEnd(pat, text, m)
    IN  IF j = 0 \/ k > Len(text) THEN NoMatch
        ELSE IF ~IsSep(text[k]) \/ e = 0 THEN NoMatch
        ELSE [matched |-> TRUE, start |-> i, group1 |-> SubSeq(text, m, e - 1)]

RECURSIVE re_search_from(_, _, _)
\* re.search(pat, text) scanning start positions from i on: the leftmost match.
re_search_from(pat, text, i) ==
    IF i > Len(text) THEN NoMatch
    ELSE LET r == MatchAt(pat, text, i)
         IN  IF r.matched THEN r ELSE re_search_from(pat, text, i + 1)

re_search(pat, text) == re_search_from(pat, text, 1)

RECURSIVE lstrip(_)
lstrip(s) == IF s # <<>> /\ IsSpace(Head(s)) THEN lstrip(Tail(s)) ELSE s

RECURSIVE rstrip(_)
rstrip(s) ==
    IF s # <<>> /\ IsSpace(s[Len(s)]) THEN rstrip(SubSeq(s, 1, Len(s) - 1)) ELSE s

\* str.strip()
strip(s) == rstrip(lstrip(s))

\* A mutation of find_one: the match that starts leftmost in the text wins,
\* whichever pattern it belongs to.
find_one_leftmost(patterns, text) ==
    LET hits == {k \in 1..Len(patterns) : re_search(patterns[k], text).matched}
        best == CHOOSE k \in hits :
                    \A l \in hits : re_search(patterns[k], text).start
                                        <= re_search(patterns[l], text).start
    IN  IF hits = {} THEN EmptyStr ELSE strip(re_search(patterns[best], text).group1)

RECURSIVE find_one(_, _)
\* find_one(patterns), lines 24-29, over the body text.
find_one(patterns, text) ==
    IF patterns = <<>> THEN EmptyStr
    ELSE LET m == re_search(Head(patterns), text)
         IN  IF m.matched THEN strip(m.group1)
             ELSE find_one(Tail(patterns), text)

(***************************************************************************)
(* Heading lookups.  page.heading[sel] says how page.inner_text(sel)       *)
(* answers: it raises, or it returns a text that is, once stripped, empty, *)
(* 199 characters long or 200 characters long.                             *)
(***************************************************************************)
Selectors == <<"h1", "h2", "title">>
HeadingKinds == {"raise", "empty", "len199", "len200"}

\* page.inner_text(sel).strip(), line 47.
inner_text_stripped(pg, sel) ==
    LET kind == pg.heading[sel]
    IN  [raised |-> kind = "raise",
         text |-> IF kind \in {"len199", "len200"} THEN <<sel, kind>> ELSE EmptyStr,
         len |-> IF kind = "len199" THEN 199 ELSE IF kind = "len200" THEN 200 ELSE 0]

RECURSIVE first_heading(_, _)
\* The loop of lines 44-52 over the selectors sels still to try.
first_heading(pg, sels) ==
    IF sels = <<>> THEN EmptyStr
    ELSE LET t == inner_text_stripped(pg, Head(sels))
         IN  IF ~t.raised /\ t.text # EmptyStr /\ t.len < 200
             THEN t.text
             ELSE first_heading(pg, Tail(sels))

NoData == [name |-> EmptyStr, phone |-> EmptyStr, email |-> EmptyStr,
           website |-> EmptyStr, url |-> EmptyStr]
PlaywrightError == [type |-> "playwright.Error", arg |-> <<"Page.inner_text: Target closed">>]

\* A mutation of extract_from_detail_page: find_one without its "if m" test,
\* so that a pattern list with no match raises (group of None).
extract_unguarded(pg) ==
    IF \/ pg.bodyRaises
       \/ \E pats \in {PhonePatterns, EmailPatterns, WebsitePatterns} :
              \A k \in 1..Len(pats) : ~re_search(pats[k], pg.text).matched
    THEN [raised |-> TRUE, error |-> PlaywrightError, data |-> NoData]
    ELSE [raised |-> FALSE, error |-> NoError,
          data |-> [name |-> first_heading(pg, Selectors),
                    phone |-> find_one(PhonePatterns, pg.text),
                    email |-> find_one(EmailPatterns, pg.text),
                    website |-> find_one(WebsitePatterns, pg.text),
                    url |-> pg.url]]

\* extract_from_detail_page(page), lines 16-60.  Reading the body text
\* (line 22) is outside any try: if it raises, the function raises.
extract_from_detail_page(pg) ==
    IF pg.bodyRaises
    THEN [raised |-> TRUE, error |-> PlaywrightError, data |-> NoData]
    ELSE [raised |-> FALSE, error |-> NoError,
          data |-> [name |-> first_heading(pg, Selectors),
                    phone |-> find_one(PhonePatterns, pg.text),
                    email |-> find_one(EmailPatterns, pg.text),
                    website |-> find_one(WebsitePatterns, pg.text),
                    url |-> pg.url]]

(***************************************************************************)
(* Bounded inputs.                                                         *)
(***************************************************************************)
SeqsUpTo(S, n) == UNION {[1..k -> S] : k \in 0..n}

RECURSIVE Flatten(_)
Flatten(ss) == IF ss = <<>> THEN <<>> ELSE Head(ss) \o Flatten(Tail(ss))

MaxChunks == 5
MaxTextLen == 3
MaxFieldTextLen == 6

\* Pieces the normalizer's inputs are put together from: digit groups,
\* punctuation, a non-ASCII decimal digit.
Chunks == {<<"0">>, <<"1", "2", "3", "4">>, <<"5", "6", "7", "8", "9">>,
           <<".">>, <<ArabicThree>>}
NormInputs(maxChunks) == {Flatten(cs) : cs \in SeqsUpTo(Chunks, maxChunks)}

SelectorSet == {Selectors[k] : k \in 1..Len(Selectors)}
DetailUrl == <<"https://kbopub.economie.fgov.be/kbopub/toonondernemingps.html">>
\* Pages for the extractor: body texts up to maxLen chunks with the three
\* heading lookups answering alike; body texts up to maxLen chunks with any
\* combination of heading lookups; pages whose body cannot be read.
UniformPages(maxLen) ==
    {[text |-> t, heading |-> [s \in SelectorSet |-> kind], url |-> DetailUrl,
      bodyRaises |-> FALSE] :
        t \in SeqsUpTo(Tokens, maxLen), kind \in HeadingKinds}
MixedPages(maxLen) ==
    {[text |-> t, heading |-> h, url |-> DetailUrl, bodyRaises |-> FALSE] :
        t \in SeqsUpTo(Tokens, maxLen), h \in [SelectorSet -> HeadingKinds]}
UnreadablePages ==
    {[text |-> <<>>, heading |-> h, url |-> DetailUrl, bodyRaises |-> TRUE] :
        h \in [SelectorSet -> HeadingKinds]}
\* Pages with longer body text over the phone and e-mail chunks.
FieldPages(maxLen) ==
    {[text |-> t, heading |-> [s \in SelectorSet |-> "len199"], url |-> DetailUrl,
      bodyRaises |-> FALSE] : t \in SeqsUpTo(FieldTokens, maxLen)}

(***************************************************************************)
(* The normalizer applied to an input, and again to what it returned.      *)
(***************************************************************************)
NormIdle == nIn = <<>> /\ nOut = <<>> /\ nOut2 = <<>>
ExtractIdle == page = [text |-> <<>>, heading |-> [s \in SelectorSet |-> "empty"],
                       url |-> EmptyStr, bodyRaises |-> FALSE]
               /\ extracted = <<>>

Normalize ==
    /\ nOut = <<>>
    /\ nOut' = <<normalize_kbo(nIn)>>
    /\ UNCHANGED <<nIn, nOut2>>

Renormalize ==
    /\ nOut # <<>>
    /\ ~nOut[1].raised
    /\ nOut2 = <<>>
    /\ nOut2' = <<normalize_kbo(nOut[1].value)>>
    /\ UNCHANGED <<nIn, nOut>>

(***************************************************************************)
(* The extractor applied to a page.                                        *)
(***************************************************************************)
Extract ==
    /\ extracted = <<>>
    /\ extracted' = <<extract_from_detail_page(page)>>
    /\ UNCHANGED page

(***************************************************************************)
(* scrape_one.  env says how the browser answers each call of one run:     *)
(*   goto      page.goto (line 77): "ok" or "error" (it raises)            *)
(*   humanCheck  whether the pages shown carry a human-check keyword       *)
(*   input[k]  candidate k of possible_inputs: "ok", "timeout"             *)
(*             (wait_for_selector raises PWTimeoutError) or "error"        *)
(*             (fill raises another exception)                             *)
(*   submit[k] whether page.click on candidate k of possible_submit works  *)
(*   load      page.wait_for_load_state (line 124): "ok" or "error"        *)
(*   link      the result link: "none" (count() is 0), "found", "error"    *)
(*   final     the page shown when the extraction runs                     *)
(* The outcome records the calls made on the page, in order.               *)
(***************************************************************************)
START_URL == "https://kbopub.economie.fgov.be/kbopub/zoeknummerform.html"
possible_inputs == <<"input[name=\"nummer\"]", "input#nummer", "input[type=\"text\"]">>
possible_submit == <<"input[type=\"submit\"]", "button[type=\"submit\"]",
                     "button:has-text(\"Zoeken\")", "button:has-text(\"Rechercher\")",
                     "input[value*=\"Zoek\" i]", "input[value*=\"Recher\" i]">>

Call(op, sel, txt) == [op |-> op, sel |-> sel, text |-> txt]

NotFoundError == [type |-> "RuntimeError",
                  arg |-> <<"Could not find the enterprise number input field on the KBO form.">>]
NavigationError == [type |-> "playwright.Error", arg |-> <<"Page.goto: net::ERR_CONNECTION_RESET">>]
FillError == [type |-> "playwright.Error", arg |-> <<"Page.fill: Element is not an <input>">>]
LoadError == [type |-> "playwright.Error", arg |-> <<"Page.wait_for_load_state: Target closed">>]

\* maybe_wait_for_human_check(page), lines 62-74: blocks on input() when a
\* keyword is found.
maybe_wait_for_human_check(e) ==
    IF e.humanCheck
    THEN <<Call("input", "", <<"Press ENTER here after you finish the human check...">>)>>
    ELSE <<>>

RECURSIVE input_chain(_, _, _)
\* The loop of lines 88-96 from candidate k on.
input_chain(e, n, k) ==
    IF k > Len(possible_inputs)
    THEN [found |-> FALSE, raised |-> FALSE, calls |-> <<>>]
    ELSE LET sel == possible_inputs[k]
             wait == Call("wait_for_selector", sel, EmptyStr)
             fill == Call("fill", sel, n)
         IN  IF e.input[k] = "ok"
             THEN [found |-> TRUE, raised |-> FALSE, calls |-> <<wait, fill>>]
             ELSE IF e.input[k] = "error"
             THEN [found |-> FALSE, raised |-> TRUE, calls |-> <<wait, fill>>]
             ELSE LET rest == input_chain(e, n, k + 1)
                  IN  [rest EXCEPT !.calls = <<wait>> \o @]

RECURSIVE submit_chain(_, _)
\* The loop of lines 111-118 from candidate k on.
submit_chain(e, k) ==
    IF k > Len(possible_submit)
    THEN [submitted |-> FALSE, calls |-> <<>>]
    ELSE LET click == Call("click", possible_submit[k], EmptyStr)
         IN  IF e.submit[k]
             THEN [submitted |-> TRUE, calls |-> <<click>>]
             ELSE LET rest == submit_chain(e, k + 1)
                  IN  [rest EXCEPT !.calls = <<click>> \o @]

Raise(err, calls) == [raised |-> TRUE, error |-> err, data |-> NoData, calls |-> calls]

\* Lines 127-137: the result link, every exception swallowed.
result_link(e, n) ==
    IF e.link = "found"
    THEN <<Call("click", "a:has-text", n),
           Call("wait_for_load_state", "", <<"domcontentloaded">>)>>
         \o maybe_wait_for_human_check(e)
    ELSE <<>>

\* A mutation of scrape_one: the input chain exhausted goes on to the submit step.
scrape_one_input_continues(e, n) ==
    LET c1 == <<Call("goto", "", <<START_URL>>)>>
        c2 == c1 \o maybe_wait_for_human_check(e)
        ic == input_chain(e, n, 1)
        sc == submit_chain(e, 1)
        c3 == c2 \o ic.calls \o sc.calls
              \o (IF sc.submitted THEN <<>> ELSE <<Call("press", "", <<"Enter">>)>>)
        c4 == c3 \o <<Call("wait_for_load_state", "", <<"domcontentloaded">>)>>
        c5 == c4 \o maybe_wait_for_human_check(e) \o result_link(e, n)
        ex == extract_from_detail_page(e.final)
    IN  IF e.goto = "error" THEN Raise(NavigationError, c1)
        ELSE IF ic.raised THEN Raise(FillError, c2 \o ic.calls)
        ELSE IF e.load = "error" THEN Raise(LoadError, c4)
        ELSE [raised |-> ex.raised, error |-> ex.error, data |-> ex.data, calls |-> c5]

\* scrape_one(page, enterprise_number), lines 76-141.
scrape_one(e, n) ==
    LET c1 == <<Call("goto", "", <<START_URL>>)>>
        c2 == c1 \o maybe_wait_for_human_check(e)
        ic == input_chain(e, n, 1)
        sc == submit_chain(e, 1)
        c3 == c2 \o ic.calls \o sc.calls
              \o (IF sc.submitted THEN <<>> ELSE <<Call("press", "", <<"Enter">>)>>)
        c4 == c3 \o <<Call("wait_for_load_state", "", <<"domcontentloaded">>)>>
        c5 == c4 \o maybe_wait_for_human_check(e) \o result_link(e, n)
        ex == extract_from_detail_page(e.final)
    IN  IF e.goto = "error" THEN Raise(NavigationError, c1)
        ELSE IF ic.raised THEN Raise(FillError, c2 \o ic.calls)
        ELSE IF ~ic.found THEN Raise(NotFoundError, c2 \o ic.calls)
        ELSE IF e.load = "error" THEN Raise(LoadError, c4)
        ELSE [raised |-> ex.raised, error |-> ex.error, data |-> ex.data, calls |-> c5]

\* Two detail pages: one with every contact field, one with none.
FullPage == [text |-> <<"Tel", ":", "1", NL, "E-mail", ":", "a@b", NL, "Website", ":", "www.x">>,
             heading |-> [s \in SelectorSet |-> "len199"], url |-> DetailUrl,
             bodyRaises |-> FALSE]
BarePage == [text |-> <<>>, heading |-> [s \in SelectorSet |-> "raise"], url |-> DetailUrl,
             bodyRaises |-> FALSE]
ClosedPage == [text |-> <<>>, heading |-> [s \in SelectorSet |-> "raise"], url |-> DetailUrl,
               bodyRaises |-> TRUE]

ScrapeEnvs ==
    [goto : {"ok", "error"}, humanCheck : BOOLEAN,
     input : [1..Len(possible_inputs) -> {"ok", "timeout", "error"}],
     submit : [1..Len(possible_submit) -> BOOLEAN],
     load : {"ok", "error"}, link : {"none", "found", "error"},
     final : {FullPage, BarePage}]

AnIdentifier == <<"0", "1", "2", "3", "4", "5", "6", "7", "8", "9">>
IdleEnv == [goto |-> "ok", humanCheck |-> FALSE,
            input |-> [k \in 1..Len(possible_inputs) |-> "ok"],
            submit |-> [k \in 1..Len(possible_submit) |-> TRUE],
            load |-> "ok", link |-> "none", final |-> BarePage]
ScrapeIdle == env = IdleEnv /\ scraped = <<>>

Scrape ==
    /\ scraped = <<>>
    /\ scraped' = <<scrape_one(env, AnIdentifier)>>
    /\ UNCHANGED env

(***************************************************************************)
(* main.  nums starts as the list read from the input file (lines          *)
(* 153-162).                                                               *)
(***************************************************************************)
MaxBatch == 3

RawInputs == {AnIdentifier,
              <<"1", "2", "3", "4", "5", "6", "7", "8", "9">>,
              <<"1", "2", "3", "4", "5">>,
              <<"B", "E", " ", "0", "1", "2", "3", ".", "4", "5", "6", ".", "7", "8", ArabicThree>>}

\* What the site does for one identifier of a batch.
BatchEnvs ==
    {IdleEnv,
     [IdleEnv EXCEPT !.final = FullPage, !.link = "found"],
     [IdleEnv EXCEPT !.input = [k \in 1..Len(possible_inputs) |-> "timeout"]],
     [IdleEnv EXCEPT !.goto = "error"],
     [IdleEnv EXCEPT !.final = ClosedPage]}

RECURSIVE normalize_all_skip(_)
\* A mutation of normalize_all: an invalid identifier is left out of the list.
normalize_all_skip(raw) ==
    IF raw = <<>> THEN [raised |-> FALSE, error |-> NoError, values |-> <<>>]
    ELSE LET r == normalize_kbo(Head(raw))
             rest == normalize_all_skip(Tail(raw))
         IN  IF r.raised THEN rest
             ELSE [rest EXCEPT !.values = <<r.value>> \o @]

RECURSIVE normalize_all(_)
\* [normalize_kbo(n) for n in nums], line 164: the first failure raises.
normalize_all(raw) ==
    IF raw = <<>> THEN [raised |-> FALSE, error |-> NoError, values |-> <<>>]
    ELSE LET r == normalize_kbo(Head(raw))
             rest == normalize_all(Tail(raw))
         IN  IF r.raised THEN [raised |-> TRUE, error |-> r.error, values |-> <<>>]
             ELSE IF rest.raised THEN rest
             ELSE [rest EXCEPT !.values = <<r.value>> \o @]

\* A mutation of row_for: the failure row keeps no error text.
row_for_no_error(n, r) ==
    IF r.raised
    THEN [enterprise_number |-> n, name |-> EmptyStr, phone |-> EmptyStr,
          email |-> EmptyStr, website |-> EmptyStr, url |-> EmptyStr,
          error |-> EmptyStr]
    ELSE [enterprise_number |-> n, name |-> r.data.name, phone |-> r.data.phone,
          email |-> r.data.email, website |-> r.data.website, url |-> r.data.url]

\* The row appended for identifier n, lines 174-178; r is what scrape_one did.
\* str(e) is the exception's message.
row_for(n, r) ==
    IF r.raised
    THEN [enterprise_number |-> n, name |-> EmptyStr, phone |-> EmptyStr,
          email |-> EmptyStr, website |-> EmptyStr, url |-> EmptyStr,
          error |-> r.error.arg]
    ELSE [enterprise_number |-> n, name |-> r.data.name, phone |-> r.data.phone,
          email |-> r.data.email, website |-> r.data.website, url |-> r.data.url]

KeyOrder == <<"enterprise_number", "name", "phone", "email", "website", "url", "error">>

\* pd.DataFrame(rows).to_csv(...), lines 185-186: the columns are the keys of
\* the rows in order of first appearance; a key a row lacks is written empty.
to_csv(rs) ==
    LET present(k) == \E i \in 1..Len(rs) : k \in DOMAIN rs[i]
        cols == SelectSeq(KeyOrder, present)
    IN  [columns |-> cols,
         lines |-> [i \in 1..Len(rs) |->
                      [j \in 1..Len(cols) |->
                          IF cols[j] \in DOMAIN rs[i] THEN rs[i][cols[j]] ELSE EmptyStr]]]

MainIdle ==
    /\ inputFile = <<>> /\ pc = "idle" /\ nums = <<>> /\ idx = 0 /\ pending = <<>> /\ rows = <<>>
    /\ browser = "none" /\ driverLog = <<>> /\ output = <<>> /\ crash = <<>>

\* Line 164 (and line 166 when it succeeds).
NormalizeAll ==
    /\ pc = "normalize"
    /\ LET r == normalize_all(nums)
       IN  IF r.raised
           THEN /\ pc' = "crashed"
                /\ crash' = <<r.error>>
                /\ UNCHANGED nums
           ELSE /\ pc' = "launch"
                /\ nums' = r.values
                /\ UNCHANGED crash
    /\ UNCHANGED <<inputFile, idx, pending, rows, browser, driverLog, output>>

\* Lines 167-170.
Launch ==
    /\ pc = "launch"
    /\ browser' = "open"
    /\ idx' = 1
    /\ pc' = "loop"
    /\ UNCHANGED <<inputFile, nums, pending, rows, driverLog, output, crash>>

\* Line 175: the call of scrape_one for nums[idx].
CallDriver ==
    /\ pc = "loop"
    /\ idx <= Len(nums)
    /\ \E e \in BatchEnvs :
          LET r == scrape_one(e, nums[idx])
          IN  /\ pending' = <<r>>
              /\ driverLog' = Append(driverLog, [n |-> nums[idx], raised |-> r.raised])
    /\ pc' = "append"
    /\ UNCHANGED <<inputFile, nums, idx, rows, browser, output, crash>>

\* A mutation of AppendRow: an identifier whose scrape raised is tried again.
AppendRowRetry ==
    /\ pc = "append"
    /\ IF pending[1].raised
       THEN UNCHANGED <<rows, idx>>
       ELSE /\ rows' = Append(rows, row_for(nums[idx], pending[1]))
            /\ idx' = idx + 1
    /\ pending' = <<>>
    /\ pc' = "loop"
    /\ UNCHANGED <<inputFile, nums, browser, driverLog, output, crash>>

\* Lines 176-181: the row is appended, then the loop goes on.
AppendRow ==
    /\ pc = "append"
    /\ rows' = Append(rows, row_for(nums[idx], pending[1]))
    /\ idx' = idx + 1
    /\ pending' = <<>>
    /\ pc' = "loop"
    /\ UNCHANGED <<inputFile, nums, browser, driverLog, output, crash>>

\* Line 183, after the last identifier.
CloseBrowser ==
    /\ pc = "loop"
    /\ idx > Len(nums)
    /\ browser' = "closed"
    /\ pc' = "write"
    /\ UNCHANGED <<inputFile, nums, idx, pending, rows, driverLog, output, crash>>

\* Lines 185-187.
WriteOutput ==
    /\ pc = "write"
    /\ output' = Append(output, to_csv(rows))
    /\ pc' = "done"
    /\ UNCHANGED <<inputFile, nums, idx, pending, rows, browser, driverLog, crash>>

(***************************************************************************)
(* Specifications.                                                         *)
(***************************************************************************)
Init ==
    /\ NormIdle /\ ExtractIdle /\ ScrapeIdle
    /\ inputFile \in SeqsUpTo(RawInputs, MaxBatch)
    /\ nums = inputFile
    /\ pc = "normalize"
    /\ idx = 0 /\ pending = <<>> /\ rows = <<>> /\ browser = "none"
    /\ driverLog = <<>> /\ output = <<>> /\ crash = <<>>

Next ==
    \/ NormalizeAll /\ UNCHANGED <<normVars, extractVars, scrapeVars>>
    \/ Launch /\ UNCHANGED <<normVars, extractVars, scrapeVars>>
    \/ CallDriver /\ UNCHANGED <<normVars, extractVars, scrapeVars>>
    \/ AppendRow /\ UNCHANGED <<normVars, extractVars, scrapeVars>>
    \/ CloseBrowser /\ UNCHANGED <<normVars, extractVars, scrapeVars>>
    \/ WriteOutput /\ UNCHANGED <<normVars, extractVars, scrapeVars>>

Spec == Init /\ [][Next]_vars

InitNorm ==
    /\ nIn \in NormInputs(MaxChunks) /\ nOut = <<>> /\ nOut2 = <<>>
    /\ ExtractIdle /\ ScrapeIdle /\ MainIdle

NextNorm ==
    \/ Normalize /\ UNCHANGED <<extractVars, scrapeVars, mainVars>>
    \/ Renormalize /\ UNCHANGED <<extractVars, scrapeVars, mainVars>>

SpecNorm == InitNorm /\ [][NextNorm]_vars

InitExtract ==
    /\ \/ page \in UniformPages(MaxTextLen)
       \/ page \in MixedPages(MaxTextLen - 1)
       \/ page \in UnreadablePages
    /\ extracted = <<>>
    /\ NormIdle /\ ScrapeIdle /\ MainIdle

InitFields ==
    /\ page \in FieldPages(MaxFieldTextLen) /\ extracted = <<>>
    /\ NormIdle /\ ScrapeIdle /\ MainIdle

NextExtract == Extract /\ UNCHANGED <<normVars, scrapeVars, mainVars>>

SpecExtract == InitExtract /\ [][NextExtract]_vars

SpecFields == InitFields /\ [][NextExtract]_vars

InitScrape ==
    /\ env \in ScrapeEnvs /\ scraped = <<>>
    /\ NormIdle /\ ExtractIdle /\ MainIdle

NextScrape == Scrape /\ UNCHANGED <<normVars, extractVars, mainVars>>

SpecScrape == InitScrape /\ [][NextScrape]_vars

(***************************************************************************)
(* Properties of the normalizer (checked under SpecNorm).                  *)
(***************************************************************************)
RECURSIVE KeepDigits(_)
\* s with every character that is not a decimal digit removed.
KeepDigits(s) ==
    IF s = <<>> THEN <<>>
    ELSE IF IsDigitChar(Head(s)) THEN <<Head(s)>> \o KeepDigits(Tail(s))
    ELSE KeepDigits(Tail(s))

\* C1: normalize_kbo(s) is the reference: with d the digits of s, "0" then d
\* for 9 digits, d for 10 digits, and for any other count a ValueError that
\* carries s, with no value returned.
C1_NormalizeIsReference ==
    nOut # <<>> =>
        LET d == KeepDigits(nIn)
            r == nOut[1]
        IN  IF Len(d) = 9 THEN ~r.raised /\ r.value = <<"0">> \o d
            ELSE IF Len(d) = 10 THEN ~r.raised /\ r.value = d
            ELSE /\ r.raised
                 /\ r.error = [type |-> "ValueError", arg |-> nIn]
                 /\ r.value = EmptyStr

\* C1 witness: an input with punctuation and 9 digits was zero-padded.
C1_Witness ==
    /\ nOut # <<>>
    /\ Len(KeepDigits(nIn)) = 9
    /\ Len(nIn) > 9
    /\ ~nOut[1].raised
    /\ nOut[1].value = <<"0">> \o KeepDigits(nIn)

\* C2: whatever normalize_kbo returns is exactly 10 characters, each one of
\* '0'..'9'.
C2_ReturnsTenAsciiDigits ==
    (nOut # <<>> /\ ~nOut[1].raised) =>
        /\ Len(nOut[1].value) = 10
        /\ \A i \in 1..Len(nOut[1].value) : nOut[1].value[i] \in AsciiDigits

\* C3: normalize_kbo is idempotent: applied to a value it returned, it
\* succeeds and returns that value.
C3_Idempotent ==
    (nOut # <<>> /\ ~nOut[1].raised /\ nOut2 # <<>>) =>
        /\ ~nOut2[1].raised
        /\ nOut2[1].value = nOut[1].value

\* C3 witness: a value that differs from the input was normalized again.
C3_Witness ==
    /\ nOut # <<>> /\ nOut2 # <<>>
    /\ ~nOut[1].raised
    /\ nOut[1].value # nIn
    /\ nOut2[1].value = nOut[1].value

(***************************************************************************)
(* Properties of the extractor (checked under SpecExtract and SpecFields). *)
(***************************************************************************)
\* The positions of the text where the pattern matches.
MatchStarts(pat, text) == {i \in 1..Len(text) : MatchAt(pat, text, i).matched}

\* The stripped capture of the pattern's match that starts first in the text.
LeftmostValue(pat, text) ==
    LET first == CHOOSE i \in MatchStarts(pat, text) :
                     \A j \in MatchStarts(pat, text) : i <= j
    IN  strip(MatchAt(pat, text, first).group1)

\* The stripped captures of all matches of the patterns anywhere in the text.
Captures(pats, text) ==
    {strip(MatchAt(pats[k], text, i).group1) :
        k \in 1..Len(pats), i \in 1..Len(text)} \ {EmptyStr}

AllPatterns == PhonePatterns \o EmailPatterns \o WebsitePatterns
NoLabelRecognised(text) ==
    \A k \in 1..Len(AllPatterns) : MatchStarts(AllPatterns[k], text) = {}
Usable(pg, sel) ==
    pg.heading[sel] \notin {"raise", "empty"} /\ inner_text_stripped(pg, sel).len < 200

\* C7: on a page whose text can be read the extraction raises nothing; each
\* of phone, email, website is a captured value of one of its patterns or
\* empty, the name is a heading text or empty; with no recognised label and
\* no usable heading (a heading lookup may raise) all four are empty.
C7_ExtractionNeverFails ==
    (extracted # <<>> /\ ~page.bodyRaises) =>
        LET r == extracted[1]
        IN  /\ ~r.raised
            /\ r.data.phone \in Captures(PhonePatterns, page.text) \cup {EmptyStr}
            /\ r.data.email \in Captures(EmailPatterns, page.text) \cup {EmptyStr}
            /\ r.data.website \in Captures(WebsitePatterns, page.text) \cup {EmptyStr}
            /\ r.data.name \in {inner_text_stripped(page, sel).text : sel \in SelectorSet}
                                  \cup {EmptyStr}
            /\ (NoLabelRecognised(page.text) /\ \A sel \in SelectorSet : ~Usable(page, sel))
                   => /\ r.data.phone = EmptyStr /\ r.data.email = EmptyStr
                      /\ r.data.website = EmptyStr /\ r.data.name = EmptyStr

\* C7 witness: a non-empty text without any recognised label, a heading
\* lookup that raised and no usable heading: four empty fields, no error.
C7_Witness ==
    /\ extracted # <<>>
    /\ ~page.bodyRaises
    /\ page.text # <<>>
    /\ NoLabelRecognised(page.text)
    /\ \E sel \in SelectorSet : page.heading[sel] = "raise"
    /\ \E sel \in SelectorSet : page.heading[sel] = "len200"
    /\ \A sel \in SelectorSet : ~Usable(page, sel)
    /\ ~extracted[1].raised
    /\ extracted[1].data = [NoData EXCEPT !.url = page.url]

\* C8: per field the first pattern, in list order, that matches anywhere in
\* the text wins: the phone is the "Tel" value whenever pattern 1 matches,
\* wherever a "Telefoon" value stands, and the "Telefoon" value only when
\* pattern 1 has no match; phone, email and website are each decided by the
\* text and the field's own patterns alone.
C8_FirstPatternWins ==
    extracted # <<>> =>
        LET d == extracted[1].data
            t == page.text
            value(pat) == IF MatchStarts(pat, t) # {} THEN LeftmostValue(pat, t)
                          ELSE EmptyStr
        IN  /\ ~extracted[1].raised
            /\ d.phone = IF MatchStarts(PhonePattern1, t) # {}
                         THEN LeftmostValue(PhonePattern1, t)
                         ELSE value(PhonePattern2)
            /\ d.email = value(EmailPattern)
            /\ d.website = value(WebsitePattern)

\* C8 witness: a "Telefoon" value stands before a "Tel" value in the text,
\* and the phone is the "Tel" value.
C8_Witness ==
    /\ extracted # <<>>
    /\ MatchStarts(PhonePattern1, page.text) # {}
    /\ MatchStarts(PhonePattern2, page.text) # {}
    /\ \A i \in MatchStarts(PhonePattern1, page.text) :
           \E j \in MatchStarts(PhonePattern2, page.text) : j < i
    /\ extracted[1].data.phone = LeftmostValue(PhonePattern1, page.text)
    /\ extracted[1].data.phone # LeftmostValue(PhonePattern2, page.text)

(***************************************************************************)
(* Properties of the driver's selector chains (checked under SpecScrape).  *)
(***************************************************************************)
SubmitSet == {possible_submit[k] : k \in 1..Len(possible_submit)}

IsWait(c) == c.op = "wait_for_selector"
IsSubmitClick(c) == c.op = "click" /\ c.sel \in SubmitSet
IsPress(c) == c.op = "press"
IsLoadWait(c) == c.op = "wait_for_load_state"

\* The selectors of the calls of cs that satisfy Test, in call order.
SelectorsOf(cs, Test(_)) ==
    LET hits == SelectSeq(cs, Test) IN [i \in 1..Len(hits) |-> hits[i].sel]

\* The first input candidate that does not time out, Len + 1 if all do.
FirstInputAnswer(e) ==
    IF \A k \in 1..Len(possible_inputs) : e.input[k] = "timeout"
    THEN Len(possible_inputs) + 1
    ELSE CHOOSE k \in 1..Len(possible_inputs) :
             e.input[k] # "timeout" /\ \A l \in 1..(k - 1) : e.input[l] = "timeout"

\* The first submit candidate whose click works, Len + 1 if none does.
FirstSubmitAnswer(e) ==
    IF \A k \in 1..Len(possible_submit) : ~e.submit[k]
    THEN Len(possible_submit) + 1
    ELSE CHOOSE k \in 1..Len(possible_submit) :
             e.submit[k] /\ \A l \in 1..(k - 1) : ~e.submit[l]

InputChainRuns(e) == e.goto = "ok"
InputExhausted(e) == InputChainRuns(e) /\ FirstInputAnswer(e) > Len(possible_inputs)
SubmitChainRuns(e) ==
    /\ InputChainRuns(e)
    /\ ~InputExhausted(e)
    /\ e.input[FirstInputAnswer(e)] = "ok"
SubmitExhausted(e) == SubmitChainRuns(e) /\ FirstSubmitAnswer(e) > Len(possible_submit)

Min(a, b) == IF a <= b THEN a ELSE b

\* Both chains try their candidates in list order and stop at the first
\* that succeeds.
ChainsInOrder ==
    LET cs == scraped[1].calls
    IN  /\ InputChainRuns(env) =>
               SelectorsOf(cs, IsWait) =
                   SubSeq(possible_inputs, 1, Min(FirstInputAnswer(env), Len(possible_inputs)))
        /\ ~InputChainRuns(env) => SelectorsOf(cs, IsWait) = <<>>
        /\ SubmitChainRuns(env) =>
               SelectorsOf(cs, IsSubmitClick) =
                   SubSeq(possible_submit, 1, Min(FirstSubmitAnswer(env), Len(possible_submit)))
        /\ ~SubmitChainRuns(env) => SelectorsOf(cs, IsSubmitClick) = <<>>

\* The input chain exhausted raises the not-found error and the scrape stops.
InputExhaustedRaises ==
    InputExhausted(env) =>
        /\ scraped[1].raised
        /\ scraped[1].error = NotFoundError
        /\ SelectSeq(scraped[1].calls, IsSubmitClick) = <<>>
        /\ SelectSeq(scraped[1].calls, IsPress) = <<>>
        /\ SelectSeq(scraped[1].calls, IsLoadWait) = <<>>

\* C10 as claimed: both chains try their candidates in order, stop at the
\* first success and, with every candidate failed, raise a not-found error
\* instead of continuing the scrape.
C10_ExhaustedChainsRaise ==
    scraped # <<>> =>
        /\ ChainsInOrder
        /\ InputExhaustedRaises
        /\ SubmitExhausted(env) =>
               /\ scraped[1].raised
               /\ scraped[1].error = NotFoundError
               /\ SelectSeq(scraped[1].calls, IsLoadWait) = <<>>

\* C10 amended: both chains try their candidates in order and stop at the
\* first success; the input chain exhausted raises the not-found error and
\* the scrape stops; the submit chain exhausted presses Enter once and the
\* scrape goes on (it waits for the page to load and raises no not-found
\* error); Enter is pressed in no other case.
C10_ChainsAmended ==
    scraped # <<>> =>
        /\ ChainsInOrder
        /\ InputExhaustedRaises
        /\ SubmitExhausted(env) =>
               /\ Len(SelectSeq(scraped[1].calls, IsPress)) = 1
               /\ SelectSeq(scraped[1].calls, IsLoadWait) # <<>>
               /\ scraped[1].error # NotFoundError
               /\ (env.load = "ok" => ~scraped[1].raised)
        /\ ~SubmitExhausted(env) => SelectSeq(scraped[1].calls, IsPress) = <<>>

\* C10 witness: the first input candidate timed out, the second worked, no
\* submit candidate could be clicked, and the scrape returned data.
C10_Witness ==
    /\ scraped # <<>>
    /\ env.goto = "ok"
    /\ env.input[1] = "timeout" /\ env.input[2] = "ok"
    /\ SubmitExhausted(env)
    /\ Len(SelectSeq(scraped[1].calls, IsSubmitClick)) = Len(possible_submit)
    /\ ~scraped[1].raised
    /\ scraped[1].data.phone # EmptyStr

(***************************************************************************)
(* Properties of the batch loop (checked under Spec).                      *)
(***************************************************************************)
ContactKeys == {"name", "phone", "email", "website", "url"}
ErrorText(row) == IF "error" \in DOMAIN row THEN row.error ELSE EmptyStr
Raisers == {i \in 1..Len(driverLog) : driverLog[i].raised}
ErrorColumn(table) ==
    {j \in 1..Len(table.columns) : table.columns[j] = "error"}

\* C4: a batch of N valid identifiers yields N rows in input order, however
\* many scrapes raise; a row whose scrape raised has empty contact fields and
\* a non-empty error text, a row whose scrape returned has no error text.
C4_OneRowPerIdentifier ==
    /\ \A i \in 1..Len(rows) :
          /\ rows[i].enterprise_number = nums[i]
          /\ driverLog[i].n = nums[i]
          /\ driverLog[i].raised =>
                 /\ \A k \in ContactKeys : rows[i][k] = EmptyStr
                 /\ ErrorText(rows[i]) # EmptyStr
          /\ ~driverLog[i].raised => ErrorText(rows[i]) = EmptyStr
    /\ pc \in {"write", "done"} => Len(rows) = Len(nums)
    /\ pc = "done" =>
          /\ Len(output[1].lines) = Len(inputFile)
          /\ \A i \in 1..Len(rows) :
                 (\E j \in ErrorColumn(output[1]) : output[1].lines[i][j] # EmptyStr)
                     <=> i \in Raisers

\* C4 witness: a finished batch of at least two identifiers in which exactly
\* one scrape raised.
C4_Witness ==
    /\ pc = "done"
    /\ Len(nums) >= 2
    /\ Cardinality(Raisers) = 1
    /\ Cardinality({i \in 1..Len(rows) : ErrorText(rows[i]) # EmptyStr}) = 1

InvalidInput == \E i \in 1..Len(inputFile) : normalize_kbo(inputFile[i]).raised

\* C5: with an invalid identifier anywhere in the input the run halts at the
\* normalization: no browser session, no call of scrape_one, no row, no
\* output written.
C5_InvalidInputHalts ==
    InvalidInput =>
        /\ pc \in {"normalize", "crashed"}
        /\ browser = "none"
        /\ driverLog = <<>>
        /\ rows = <<>>
        /\ output = <<>>

\* C5 witness: the run has halted on an input whose first identifier is valid.
C5_Witness ==
    /\ pc = "crashed"
    /\ Len(inputFile) >= 2
    /\ ~normalize_kbo(inputFile[1]).raised
    /\ crash[1].type = "ValueError"
    /\ driverLog = <<>> /\ output = <<>>

AllKeys == {KeyOrder[k] : k \in 1..Len(KeyOrder)}

\* C6: every row appended has all seven keys, and the table written has
\* exactly the seven columns.
C6_SevenKeysEveryRow ==
    /\ \A i \in 1..Len(rows) : DOMAIN rows[i] = AllKeys
    /\ \A t \in 1..Len(output) : rows # <<>> => output[t].columns = KeyOrder

\* C9: past the normalization scrape_one is called once per identifier, in
\* input order; a row is appended before the next call; the output is
\* written once, after the row of the last identifier.
C9_SequentialSingleWrite ==
    pc \notin {"normalize", "crashed"} =>
        /\ Len(driverLog) <= Len(nums)
        /\ \A i \in 1..Len(driverLog) : driverLog[i].n = nums[i]
        /\ Len(driverLog) = IF pc = "append" THEN Len(rows) + 1 ELSE Len(rows)
        /\ pc # "done" => output = <<>>
        /\ pc = "done" =>
              /\ Len(output) = 1
              /\ Len(driverLog) = Len(nums)
              /\ Len(rows) = Len(nums)

\* C9 witness: a batch of several identifiers, one of whose scrapes raised,
\* has been written.
C9_Witness ==
    /\ pc = "done"
    /\ Len(nums) >= 2
    /\ Raisers # {}
    /\ Len(output) = 1
    /\ Len(output[1].lines) = Len(nums)

====
